---- MODULE Spec2Model ----
(***************************************************************************)
(* Model of the PR status report scripts of r-toku/sandbox-repo:           *)
(*   .github/workflows/script/collect_pr_status.py  (report generator)     *)
(*   .github/workflows/script/update_wiki.py        (publisher)            *)
(*   python/logging.py                              (serverless handler)   *)
(*                                                                         *)
(* Status labels are written in ASCII; the source strings are:             *)
(*   "DRAFT"             = "ドラフト"                                      *)
(*   "APPROVED_LABEL"    = "承認済み"                                      *)
(*   "CHANGES_REQUESTED_LABEL" = "修正依頼"                                *)
(*   "IN_REVIEW"         = "レビュー中"                                    *)
(*   "UNREVIEWED"        = "未レビュー"                                    *)
(***************************************************************************)
EXTENDS Naturals, Integers, Sequences, FiniteSets, TLC

VARIABLES
    \* ---- per-PR locals of collect_pr_status.main / inputs of the classifier
    reviews,            \* details["reviews"], in arrival order
    requested,          \* logins of details["reviewRequests"]
    reviewer_states,    \* dict login -> state
    is_draft,           \* pr["isDraft"]
    required_reviewers, \* set of required reviewer logins
    pr_status,          \* result of determine_pr_status ("" before the call)
    \* ---- collect_pr_status.main (the report generator)
    pc,                 \* position of the generator process
    pr_list,            \* json.loads(pr_list_json)
    idx,                \* position of the for loop in pr_list (1-based)
    fields,             \* status, priority, target_date, sprint of the PR
    gh_calls,           \* subprocess.run invocations made by run_gh in this run
    log,                \* records logged at ERROR level in this run
    output_file,        \* <repo>_PR_status.md in the output (wiki) directory
    runs_left,          \* generator runs still to be started
    \* ---- upstream: GitHub as seen through gh, and the clock
    n_open,             \* number of open pull requests of the target repository
    upstream,           \* what gh answers (fixed once asked, changed by mutations)
    now,                \* the clock, in ticks
    \* ---- history kept to compare two consecutive generator runs
    prev_file,          \* output_file as the previous run left it
    prev_done,          \* the previous run completed
    same_as_prev,       \* upstream has not changed since the previous run started
    dirty,              \* upstream was changed since the current run started
    \* ---- update_wiki.main (the publisher) and the wiki repository
    wpc,                \* position of the publisher process
    token,              \* GITHUB_TOKEN is set
    git_cmds,           \* git commands run by this publisher run, with outcome
    diff_rc,            \* diff.returncode (-1 before git diff has run)
    staged_diff,        \* the index differed from HEAD when git diff ran
    index,              \* staged content of the status file
    head,               \* content of the status file in HEAD
    publishes_left      \* publisher runs still to be started

review_vars == <<reviews, requested, reviewer_states, is_draft,
                 required_reviewers, pr_status>>
gen_vars == <<pc, pr_list, idx, fields, gh_calls, log, output_file, runs_left>>
up_vars == <<n_open, upstream, now>>
hist_vars == <<prev_file, prev_done, same_as_prev, dirty>>
wiki_vars == <<wpc, token, git_cmds, diff_rc, staged_diff, index, head,
               publishes_left>>

VARIABLES
    \* ---- python/logging.py (the serverless handler and its logger)
    lpc,                \* position: module not imported, between or inside invocations
    aws_request_id,     \* the module global of line 78
    handlers,           \* number of handlers of the module's logger
    records,            \* records formatted by JsonFormatter, in emission order
    request,            \* context.aws_request_id of the running invocation
    invocations_left    \* invocations still to come

VARIABLES
    \* ---- sync_pr_assignees_if_empty_from_issue (lines 434-503)
    apc,                \* position inside the function
    pr_assignee_ids,    \* upstream: ids of the users assigned to the PR
    issue_assignee_ids, \* upstream: ids of the users assigned to the Issue
    pr_assignees,       \* the local of line 498
    issue_assignees,    \* the local of line 501
    assignee_calls,     \* gh api graphql invocations of the call, with outcome
    \* ---- sync_if_empty_same_project (lines 335-432)
    pr_item,            \* argument: the PR's project item
    issue_item,         \* argument: the Issue's item of the same project
    field_catalog,      \* argument: the project's field catalog
    mutations,          \* update_* calls made, in order
    sync_called,        \* the function has run
    \* ---- the LOGIN_USERS_B64 block of main (lines 519-545)
    encoded,            \* the environment variable LOGIN_USERS_B64
    login_user_map,     \* dict login -> organization
    org_order,          \* organizations in order of first appearance
    users_loaded,       \* the block has run
    \* ---- get_project_field_catalog (lines 125-126, 282-333)
    PROJECT_FIELD_CATALOG_CACHE,   \* dict project id -> catalog
    catalog_calls       \* the calls made in this process, with what they did

logging_vars == <<lpc, aws_request_id, handlers, records, request, invocations_left>>
assignee_vars == <<apc, pr_assignee_ids, issue_assignee_ids, pr_assignees,
                   issue_assignees, assignee_calls>>
sync_vars == <<pr_item, issue_item, field_catalog, mutations, sync_called>>
load_vars == <<encoded, login_user_map, org_order, users_loaded>>
catalog_vars == <<PROJECT_FIELD_CATALOG_CACHE, catalog_calls>>

unit_vars == <<logging_vars, assignee_vars, sync_vars, load_vars, catalog_vars>>
script_vars == <<review_vars, gen_vars, up_vars, hist_vars, wiki_vars>>

vars == <<script_vars, unit_vars>>

(***************************************************************************)
(* Bounds                                                                  *)
(***************************************************************************)
NumLogins == 3
MaxReviews == 2
MaxSubmittedAt == 2
TicksPerSecond == 2   \* clock ticks per second of the rendered timestamp

Logins == 1..NumLogins
NoLogin == 0     \* a review whose author (or author.login) is missing

\* Review states of the data model, plus "" for a review without a state key
States == {"APPROVED", "CHANGES_REQUESTED", "COMMENTED", "PENDING"}
ReviewStates == States \cup {""}

Labels == {"DRAFT", "APPROVED_LABEL", "CHANGES_REQUESTED_LABEL",
           "IN_REVIEW", "UNREVIEWED"}

EmptyDict == [l \in {} |-> ""]

\* all dicts login -> state over the logins
StateDicts == UNION {[d -> ReviewStates] : d \in SUBSET Logins}

(***************************************************************************)
(* determine_pr_status                                                     *)
(***************************************************************************)
\* the approval test of lines 50-56
approval_met(rs, required) ==
    LET approvals == {u \in DOMAIN rs : rs[u] = "APPROVED"}
        required_for_pr == required \cap DOMAIN rs
    IN  \/ required_for_pr # {} /\ required_for_pr \subseteq approvals
        \/ approvals # {} /\ \A u \in DOMAIN rs : rs[u] = "APPROVED"

\* Mutant: the all-PENDING test of line 43 is dropped
determine_pr_status_NoPendingTest(rs, draft, required) ==
    IF draft THEN "DRAFT"
    ELSE IF DOMAIN rs = {} THEN "UNREVIEWED"
    ELSE IF \E u \in DOMAIN rs : rs[u] = "CHANGES_REQUESTED"
         THEN "CHANGES_REQUESTED_LABEL"
    ELSE IF approval_met(rs, required) THEN "APPROVED_LABEL"
    ELSE "IN_REVIEW"

\* Mutant: line 53 tests only issubset, not that required_for_pr is non-empty
determine_pr_status_EmptyRequired(rs, draft, required) ==
    LET approvals == {u \in DOMAIN rs : rs[u] = "APPROVED"}
        required_for_pr == required \cap DOMAIN rs
    IN  IF draft THEN "DRAFT"
        ELSE IF DOMAIN rs = {} \/ \A u \in DOMAIN rs : rs[u] = "PENDING"
             THEN "UNREVIEWED"
        ELSE IF \E u \in DOMAIN rs : rs[u] = "CHANGES_REQUESTED"
             THEN "CHANGES_REQUESTED_LABEL"
        ELSE IF required_for_pr \subseteq approvals THEN "APPROVED_LABEL"
        ELSE "IN_REVIEW"

\* Mutant: the approval test is made before the changes-requested test
determine_pr_status_ApprovalFirst(rs, draft, required) ==
    IF draft THEN "DRAFT"
    ELSE IF DOMAIN rs = {} \/ \A u \in DOMAIN rs : rs[u] = "PENDING"
         THEN "UNREVIEWED"
    ELSE IF approval_met(rs, required) THEN "APPROVED_LABEL"
    ELSE IF \E u \in DOMAIN rs : rs[u] = "CHANGES_REQUESTED"
         THEN "CHANGES_REQUESTED_LABEL"
    ELSE "IN_REVIEW"

\* Mutant: the draft test is made after the unreviewed test
determine_pr_status_DraftLate(rs, draft, required) ==
    IF DOMAIN rs = {} \/ \A u \in DOMAIN rs : rs[u] = "PENDING"
         THEN "UNREVIEWED"
    ELSE IF draft THEN "DRAFT"
    ELSE IF \E u \in DOMAIN rs : rs[u] = "CHANGES_REQUESTED"
         THEN "CHANGES_REQUESTED_LABEL"
    ELSE IF approval_met(rs, required) THEN "APPROVED_LABEL"
    ELSE "IN_REVIEW"

\* Mutant: the final return of line 59 is missing (the function returns None)
determine_pr_status_NoFinalReturn(rs, draft, required) ==
    IF draft THEN "DRAFT"
    ELSE IF DOMAIN rs = {} \/ \A u \in DOMAIN rs : rs[u] = "PENDING"
         THEN "UNREVIEWED"
    ELSE IF \E u \in DOMAIN rs : rs[u] = "CHANGES_REQUESTED"
         THEN "CHANGES_REQUESTED_LABEL"
    ELSE IF approval_met(rs, required) THEN "APPROVED_LABEL"
    ELSE "None"

determine_pr_status(rs, draft, required) ==
    LET approvals == {u \in DOMAIN rs : rs[u] = "APPROVED"}
        required_for_pr == required \cap DOMAIN rs
    IN  IF draft THEN "DRAFT"
        ELSE IF DOMAIN rs = {} \/ \A u \in DOMAIN rs : rs[u] = "PENDING"
             THEN "UNREVIEWED"
        ELSE IF \E u \in DOMAIN rs : rs[u] = "CHANGES_REQUESTED"
             THEN "CHANGES_REQUESTED_LABEL"
        ELSE IF required_for_pr # {} /\ required_for_pr \subseteq approvals
             THEN "APPROVED_LABEL"
        ELSE IF approvals # {} /\ \A u \in DOMAIN rs : rs[u] = "APPROVED"
             THEN "APPROVED_LABEL"
        ELSE "IN_REVIEW"

(***************************************************************************)
(* Per-PR review aggregation of main (lines 595-612)                       *)
(***************************************************************************)
ReviewRecords == [author : Logins \cup {NoLogin},
                  state : States,
                  submittedAt : 1..MaxSubmittedAt]

RECURSIVE SeqsUpTo(_, _)
SeqsUpTo(S, n) ==
    IF n = 0 THEN {<<>>}
    ELSE LET shorter == SeqsUpTo(S, n - 1)
         IN  shorter \cup {Append(s, e) : s \in {t \in shorter : Len(t) = n - 1}, e \in S}

\* sorted(reviews, key=submittedAt): Python's sort is stable
RECURSIVE SortedFrom(_, _)
SortedFrom(rvs, t) ==
    IF t > MaxSubmittedAt THEN <<>>
    ELSE SelectSeq(rvs, LAMBDA r : r.submittedAt = t) \o SortedFrom(rvs, t + 1)

\* Mutant: the reviews are processed in arrival order, without sorting
sorted_reviews_Unsorted(rvs) == rvs

sorted_reviews(rvs) == SortedFrom(rvs, 0)

\* Mutant: the loop without the `if login in requested: continue` of line 609
RECURSIVE ApplyReviews_NoSkip(_, _, _)
ApplyReviews_NoSkip(rs, rvs, req) ==
    IF rvs = <<>> THEN rs
    ELSE LET r == Head(rvs)
             login == r.author
             rs2 == IF login = NoLogin THEN rs
                    ELSE [l \in DOMAIN rs \cup {login} |->
                            IF l = login THEN r.state ELSE rs[l]]
         IN  ApplyReviews_NoSkip(rs2, Tail(rvs), req)

\* the for loop over sorted_reviews
RECURSIVE ApplyReviews(_, _, _)
ApplyReviews(rs, rvs, req) ==
    IF rvs = <<>> THEN rs
    ELSE LET r == Head(rvs)
             login == r.author
             rs2 == IF login = NoLogin THEN rs
                    ELSE IF login \in req THEN rs
                    ELSE [l \in DOMAIN rs \cup {login} |->
                            IF l = login THEN r.state ELSE rs[l]]
         IN  ApplyReviews(rs2, Tail(rvs), req)

aggregate_reviewer_states(rvs, req) ==
    ApplyReviews([r \in req |-> "PENDING"], sorted_reviews(rvs), req)

(***************************************************************************)
(* The generator, the upstream and the publisher at rest                   *)
(***************************************************************************)
NoFields == [Status |-> "-", Priority |-> "-", TargetDate |-> "-", Sprint |-> "-"]
NoFile == [exists |-> FALSE, updated |-> 0, rows |-> <<>>]
NothingAsked == [list_asked |-> FALSE, list_ok |-> FALSE, drafts |-> {},
                 details |-> <<>>, node |-> <<>>, project |-> <<>>, sync |-> <<>>]

NoRequestId == 0    \* None: no request id (line 78)

LoggingAtRest ==
    /\ lpc = "unloaded"
    /\ aws_request_id = NoRequestId
    /\ handlers = 0
    /\ records = <<>>
    /\ request = NoRequestId
    /\ invocations_left = 0

NoItem == [id |-> "", projectId |-> "", fieldValues |-> <<>>]
Unset == [kind |-> "unset", loginUsers |-> <<>>]    \* os.environ.get gives None

AssigneesAtRest ==
    /\ apc = "idle"
    /\ pr_assignee_ids = {}
    /\ issue_assignee_ids = {}
    /\ pr_assignees = {}
    /\ issue_assignees = {}
    /\ assignee_calls = <<>>

SyncAtRest ==
    /\ pr_item = NoItem
    /\ issue_item = NoItem
    /\ field_catalog = EmptyDict
    /\ mutations = <<>>
    /\ sync_called = FALSE

LoadAtRest ==
    /\ encoded = Unset
    /\ login_user_map = EmptyDict
    /\ org_order = <<>>
    /\ users_loaded = FALSE

CatalogAtRest ==
    /\ PROJECT_FIELD_CATALOG_CACHE = EmptyDict
    /\ catalog_calls = <<>>

\* the functions modelled on their own are not running
UnitsAtRest ==
    /\ LoggingAtRest
    /\ AssigneesAtRest
    /\ SyncAtRest
    /\ LoadAtRest
    /\ CatalogAtRest

GeneratorAtRest ==
    /\ pc = "idle"
    /\ pr_list = <<>>
    /\ idx = 0
    /\ fields = NoFields
    /\ gh_calls = <<>>
    /\ log = <<>>
    /\ output_file = NoFile
    /\ upstream = NothingAsked
    /\ now = 0
    /\ prev_file = NoFile
    /\ prev_done = FALSE
    /\ same_as_prev = FALSE
    /\ dirty = FALSE

PublisherAtRest ==
    /\ wpc = "idle"
    /\ git_cmds = <<>>
    /\ diff_rc = -1
    /\ staged_diff = FALSE
    /\ index = NoFile
    /\ head = NoFile

NothingRuns ==
    /\ GeneratorAtRest
    /\ PublisherAtRest
    /\ UnitsAtRest
    /\ n_open = 0
    /\ runs_left = 0
    /\ publishes_left = 0
    /\ token = FALSE

(***************************************************************************)
(* Specification of the classifier alone: inputs drawn at Init             *)
(***************************************************************************)
InitClassifier ==
    /\ NothingRuns
    /\ reviews = <<>>
    /\ requested = {}
    /\ reviewer_states \in StateDicts
    /\ is_draft \in BOOLEAN
    /\ required_reviewers \in SUBSET Logins
    /\ pr_status = ""

Classify ==
    /\ pr_status = ""
    /\ pr_status' = determine_pr_status(reviewer_states, is_draft, required_reviewers)
    /\ UNCHANGED <<reviews, requested, reviewer_states, is_draft, required_reviewers>>
    /\ UNCHANGED <<gen_vars, up_vars, hist_vars, wiki_vars>>
    /\ UNCHANGED unit_vars

NextClassifier == Classify

SpecClassifier == InitClassifier /\ [][NextClassifier]_vars

(***************************************************************************)
(* Specification of the aggregation: a PR's details drawn at Init          *)
(***************************************************************************)
InitAggregate ==
    /\ NothingRuns
    /\ reviews \in SeqsUpTo(ReviewRecords, MaxReviews)
    /\ requested \in SUBSET Logins
    /\ reviewer_states = EmptyDict
    /\ is_draft = FALSE
    /\ required_reviewers = {}
    /\ pr_status = ""

Aggregate ==
    /\ pr_status = ""
    /\ reviewer_states' = aggregate_reviewer_states(reviews, requested)
    /\ pr_status' = determine_pr_status(reviewer_states', is_draft, required_reviewers)
    /\ UNCHANGED <<reviews, requested, is_draft, required_reviewers>>
    /\ UNCHANGED <<gen_vars, up_vars, hist_vars, wiki_vars>>
    /\ UNCHANGED unit_vars

NextAggregate == Aggregate

SpecAggregate == InitAggregate /\ [][NextAggregate]_vars

(***************************************************************************)
(* What gh answers                                                         *)
(***************************************************************************)
Limit == 100          \* gh pr list --limit 100
MaxOpenPRs == 101     \* bound on the open PRs of the target repository
MaxPRs == 2           \* repositories of at most MaxPRs open PRs get varied answers

Min(a, b) == IF a < b THEN a ELSE b
Put(f, k, v) == [x \in DOMAIN f \cup {k} |-> IF x = k THEN v ELSE f[x]]
VariedAnswers == n_open <= MaxPRs

\* answers of gh pr view --json reviews,reviewRequests,assignees
SampleDetails ==
    { [reviews |-> <<>>, requested |-> {}],
      [reviews |-> <<[author |-> 1, state |-> "APPROVED", submittedAt |-> 1]>>,
       requested |-> {}],
      [reviews |-> <<[author |-> 2, state |-> "CHANGES_REQUESTED", submittedAt |-> 2],
                     [author |-> 2, state |-> "COMMENTED", submittedAt |-> 1]>>,
       requested |-> {3}] }
DetailsFailure == [ok |-> FALSE, reviews |-> <<>>, requested |-> {}]
DetailsDefault == [ok |-> TRUE, reviews |-> <<>>, requested |-> {}]
DetailsAnswers ==
    IF VariedAnswers
    THEN {DetailsFailure} \cup
         {[ok |-> TRUE, reviews |-> d.reviews, requested |-> d.requested] : d \in SampleDetails}
    ELSE {DetailsDefault}

\* answers of gh pr view --json id
NodeAnswers == IF VariedAnswers THEN BOOLEAN ELSE {TRUE}

\* answers of the projectItems GraphQL query: the fieldValues nodes of the item
SampleFieldNodes ==
    { <<>>,
      <<[name |-> "Status", value |-> "Todo"], [name |-> "Estimate", value |-> "3"]>>,
      <<[name |-> "Sprint", value |-> ""], [name |-> "Priority", value |-> "High"]>> }
ProjectFailure == [ok |-> FALSE, json_ok |-> FALSE, nodes |-> <<>>]
ProjectBadJson == [ok |-> TRUE, json_ok |-> FALSE, nodes |-> <<>>]
ProjectDefault == [ok |-> TRUE, json_ok |-> TRUE, nodes |-> <<>>]
ProjectAnswers ==
    IF VariedAnswers
    THEN {ProjectFailure, ProjectBadJson} \cup
         {[ok |-> TRUE, json_ok |-> TRUE, nodes |-> n] : n \in SampleFieldNodes}
    ELSE {ProjectDefault}

\* what the Issue synchronisation meets: nothing to do, a failing gh command,
\* or a Priority to copy from the linked Issue
SyncAnswers == IF VariedAnswers THEN {"none", "fail", "copy"} ELSE {"none"}

Answer(memo, k, fresh) == IF k \in DOMAIN memo THEN {memo[k]} ELSE fresh

(***************************************************************************)
(* run_gh and extract_fields                                               *)
(***************************************************************************)
\* one subprocess.run; on a non-zero exit the error text is logged and
\* CalledProcessError is raised
run_gh(cmd, pr, ok) ==
    LET returncode == IF ok THEN 0 ELSE 1
    IN  [raised |-> returncode # 0,
         call   |-> [cmd |-> cmd, pr |-> pr, rc |-> returncode],
         logged |-> IF returncode # 0
                    THEN <<[msg |-> "gh command failed", text |-> cmd, pr |-> pr]>>
                    ELSE <<>>]

FieldKey(name) ==
    CASE name = "Status" -> "Status"
      [] name = "Priority" -> "Priority"
      [] name = "Target Date" -> "TargetDate"
      [] name = "Sprint" -> "Sprint"
      [] OTHER -> ""

RECURSIVE ExtractFrom(_, _)
ExtractFrom(result, nodes) ==
    IF nodes = <<>> THEN result
    ELSE LET fv == Head(nodes)
             key == FieldKey(fv.name)
         IN  ExtractFrom(IF key # "" /\ fv.value # ""
                         THEN [result EXCEPT ![key] = fv.value]
                         ELSE result,
                         Tail(nodes))

extract_fields(nodes) == ExtractFrom(NoFields, nodes)

FormatTime(t) == t \div TicksPerSecond

(***************************************************************************)
(* collect_pr_status.main                                                  *)
(***************************************************************************)
GeneratorRunning == pc \notin {"idle", "done", "aborted"}
PublisherRunning == wpc \notin {"idle", "done", "exit1", "failed"}

\* Mutant: the output file is opened with "a": the rows of the previous run stay
G_Start_Append ==
    /\ ~GeneratorRunning /\ ~PublisherRunning
    /\ runs_left > 0
    /\ runs_left' = runs_left - 1
    /\ prev_file' = output_file
    /\ prev_done' = (pc = "done")
    /\ same_as_prev' = (pc # "idle" /\ ~dirty)
    /\ dirty' = FALSE
    /\ output_file' = [exists |-> TRUE, updated |-> FormatTime(now),
                       rows |-> output_file.rows]
    /\ pr_list' = <<>>
    /\ idx' = 0
    /\ fields' = NoFields
    /\ gh_calls' = <<>>
    /\ log' = <<>>
    /\ reviews' = <<>>
    /\ requested' = {}
    /\ reviewer_states' = EmptyDict
    /\ is_draft' = FALSE
    /\ pr_status' = ""
    /\ pc' = "list"
    /\ wpc' = "idle"
    /\ git_cmds' = <<>>
    /\ diff_rc' = -1
    /\ staged_diff' = FALSE
    /\ UNCHANGED <<required_reviewers, up_vars, token, index, head, publishes_left>>
    /\ UNCHANGED unit_vars

\* lines 505-564: the output file is opened with "w" and the header written
G_Start ==
    /\ ~GeneratorRunning /\ ~PublisherRunning
    /\ runs_left > 0
    /\ runs_left' = runs_left - 1
    /\ prev_file' = output_file
    /\ prev_done' = (pc = "done")
    /\ same_as_prev' = (pc # "idle" /\ ~dirty)
    /\ dirty' = FALSE
    /\ output_file' = [exists |-> TRUE, updated |-> FormatTime(now), rows |-> <<>>]
    /\ pr_list' = <<>>
    /\ idx' = 0
    /\ fields' = NoFields
    /\ gh_calls' = <<>>
    /\ log' = <<>>
    /\ reviews' = <<>>
    /\ requested' = {}
    /\ reviewer_states' = EmptyDict
    /\ is_draft' = FALSE
    /\ pr_status' = ""
    /\ pc' = "list"
    \* the publisher process has exited
    /\ wpc' = "idle"
    /\ git_cmds' = <<>>
    /\ diff_rc' = -1
    /\ staged_diff' = FALSE
    /\ UNCHANGED <<required_reviewers, up_vars, token, index, head, publishes_left>>
    /\ UNCHANGED unit_vars

\* lines 566-574: gh pr list
G_ListPRs ==
    /\ pc = "list"
    /\ \E ok \in (IF upstream.list_asked THEN {upstream.list_ok} ELSE BOOLEAN),
          drafts \in (IF upstream.list_asked THEN {upstream.drafts}
                      ELSE IF VariedAnswers THEN SUBSET (1..n_open) ELSE {{}}) :
        LET r == run_gh("pr_list", 0, ok)
        IN  /\ ~ok => drafts = {}
            /\ upstream' = [upstream EXCEPT !.list_asked = TRUE, !.list_ok = ok,
                                            !.drafts = drafts]
            /\ gh_calls' = Append(gh_calls, r.call)
            /\ log' = log \o r.logged
            /\ IF r.raised
               THEN /\ pc' = "aborted"
                    /\ UNCHANGED <<pr_list, idx>>
               ELSE /\ pr_list' = [i \in 1..Min(n_open, Limit) |->
                                      [number |-> i, isDraft |-> i \in drafts]]
                    /\ idx' = 1
                    /\ pc' = IF Min(n_open, Limit) = 0 THEN "done" ELSE "details"
    /\ UNCHANGED <<review_vars, fields, output_file, runs_left, n_open, now,
                   hist_vars, wiki_vars>>
    /\ UNCHANGED unit_vars

\* lines 576-622: gh pr view (details), review aggregation, classification
G_FetchDetails ==
    /\ pc = "details"
    /\ LET number == pr_list[idx].number
       IN  \E resp \in Answer(upstream.details, number, DetailsAnswers) :
            LET r == run_gh("pr_view_details", number, resp.ok)
            IN  /\ upstream' = [upstream EXCEPT !.details = Put(@, number, resp)]
                /\ gh_calls' = Append(gh_calls, r.call)
                /\ log' = log \o r.logged
                /\ IF r.raised
                   THEN /\ pc' = "aborted"
                        /\ UNCHANGED <<reviews, requested, reviewer_states,
                                       is_draft, pr_status>>
                   ELSE /\ is_draft' = pr_list[idx].isDraft
                        /\ reviews' = resp.reviews
                        /\ requested' = resp.requested
                        /\ reviewer_states' =
                               aggregate_reviewer_states(resp.reviews, resp.requested)
                        /\ pr_status' = determine_pr_status(reviewer_states', is_draft',
                                                            required_reviewers)
                        /\ pc' = "node"
    /\ UNCHANGED <<required_reviewers, pr_list, idx, fields, output_file,
                   runs_left, n_open, now, hist_vars, wiki_vars>>
    /\ UNCHANGED unit_vars

\* Mutant: a failure of gh pr view (node id) is swallowed and the run goes on
G_FetchNodeId_Swallow ==
    /\ pc = "node"
    /\ LET number == pr_list[idx].number
       IN  \E ok \in Answer(upstream.node, number, NodeAnswers) :
            LET r == run_gh("pr_view_id", number, ok)
            IN  /\ upstream' = [upstream EXCEPT !.node = Put(@, number, ok)]
                /\ gh_calls' = Append(gh_calls, r.call)
                /\ log' = log \o r.logged
                /\ pc' = "project"
    /\ UNCHANGED <<review_vars, pr_list, idx, fields, output_file, runs_left,
                   n_open, now, hist_vars, wiki_vars>>
    /\ UNCHANGED unit_vars

\* lines 624-628: gh pr view (node id)
G_FetchNodeId ==
    /\ pc = "node"
    /\ LET number == pr_list[idx].number
       IN  \E ok \in Answer(upstream.node, number, NodeAnswers) :
            LET r == run_gh("pr_view_id", number, ok)
            IN  /\ upstream' = [upstream EXCEPT !.node = Put(@, number, ok)]
                /\ gh_calls' = Append(gh_calls, r.call)
                /\ log' = log \o r.logged
                /\ pc' = IF r.raised THEN "aborted" ELSE "project"
    /\ UNCHANGED <<review_vars, pr_list, idx, fields, output_file, runs_left,
                   n_open, now, hist_vars, wiki_vars>>
    /\ UNCHANGED unit_vars

\* Mutant: the except blocks do not assign the placeholders, the values of
\* the previous PR stay
G_FetchProject_Stale ==
    /\ pc = "project"
    /\ LET number == pr_list[idx].number
       IN  \E resp \in Answer(upstream.project, number, ProjectAnswers) :
            LET r == run_gh("graphql_project", number, resp.ok)
            IN  /\ upstream' = [upstream EXCEPT !.project = Put(@, number, resp)]
                /\ gh_calls' = Append(gh_calls, r.call)
                /\ IF r.raised
                   THEN /\ log' = log \o r.logged \o
                                  <<[msg |-> "PROJECT_JSON fetch failed",
                                     text |-> "graphql_project", pr |-> number]>>
                        /\ fields' = fields
                   ELSE IF ~resp.json_ok
                   THEN /\ log' = Append(log, [msg |-> "PROJECT_JSON parse failed",
                                               text |-> "graphql_project", pr |-> number])
                        /\ fields' = fields
                   ELSE /\ log' = log
                        /\ fields' = extract_fields(resp.nodes)
                /\ pc' = "row"
    /\ UNCHANGED <<review_vars, pr_list, idx, output_file, runs_left, n_open, now,
                   hist_vars, wiki_vars>>
    /\ UNCHANGED unit_vars

\* lines 674-700: the project field values, "-" when the fetch fails
G_FetchProject ==
    /\ pc = "project"
    /\ LET number == pr_list[idx].number
       IN  \E resp \in Answer(upstream.project, number, ProjectAnswers) :
            LET r == run_gh("graphql_project", number, resp.ok)
            IN  /\ upstream' = [upstream EXCEPT !.project = Put(@, number, resp)]
                /\ gh_calls' = Append(gh_calls, r.call)
                /\ IF r.raised
                   THEN /\ log' = log \o r.logged \o
                                  <<[msg |-> "PROJECT_JSON fetch failed",
                                     text |-> "graphql_project", pr |-> number]>>
                        /\ fields' = NoFields
                   ELSE IF ~resp.json_ok
                   THEN /\ log' = Append(log, [msg |-> "PROJECT_JSON parse failed",
                                               text |-> "graphql_project", pr |-> number])
                        /\ fields' = NoFields
                   ELSE /\ log' = log
                        /\ fields' = extract_fields(resp.nodes)
                /\ pc' = "row"
    /\ UNCHANGED <<review_vars, pr_list, idx, output_file, runs_left, n_open, now,
                   hist_vars, wiki_vars>>
    /\ UNCHANGED unit_vars

\* lines 702-716: the row of the PR is appended to the output file
RowOf(number) ==
    [number |-> number, status |-> pr_status, reviewers |-> reviewer_states,
     fields |-> fields]

G_WriteRow ==
    /\ pc = "row"
    /\ output_file' = [output_file EXCEPT !.rows = Append(@, RowOf(pr_list[idx].number))]
    /\ pc' = "sync"
    /\ UNCHANGED <<review_vars, pr_list, idx, fields, gh_calls, log, runs_left,
                   up_vars, hist_vars, wiki_vars>>
    /\ UNCHANGED unit_vars

\* lines 718-732: synchronisation with the linked Issue; every failure is
\* caught.  Then the next PR, or line 734 after the last one.
G_Sync ==
    /\ pc = "sync"
    /\ LET number == pr_list[idx].number
       IN  \E what \in Answer(upstream.sync, number, SyncAnswers) :
            LET r == run_gh("graphql_sync", number, what # "fail")
                p == upstream.project[number]
                copied == [p EXCEPT !.nodes =
                              IF extract_fields(@).Priority = "-"
                              THEN Append(@, [name |-> "Priority", value |-> "High"])
                              ELSE @]
            IN  /\ gh_calls' = Append(gh_calls, r.call)
                /\ IF r.raised
                   THEN log' = log \o r.logged \o
                               <<[msg |-> "sync failed", text |-> "graphql_sync",
                                  pr |-> number]>>
                   ELSE log' = log
                /\ IF what = "copy"
                   THEN /\ upstream' = [upstream EXCEPT
                                          !.sync = Put(@, number, "none"),
                                          !.project = Put(@, number,
                                                IF p.ok /\ p.json_ok THEN copied ELSE p)]
                        /\ dirty' = TRUE
                   ELSE /\ upstream' = [upstream EXCEPT !.sync = Put(@, number, what)]
                        /\ dirty' = dirty
    /\ idx' = idx + 1
    /\ pc' = IF idx = Len(pr_list) THEN "done" ELSE "details"
    /\ UNCHANGED <<review_vars, pr_list, fields, output_file, runs_left, n_open, now,
                   prev_file, prev_done, same_as_prev, wiki_vars>>
    /\ UNCHANGED unit_vars

NextMain ==
    \/ G_Start
    \/ G_ListPRs
    \/ G_FetchDetails
    \/ G_FetchNodeId
    \/ G_FetchProject
    \/ G_WriteRow
    \/ G_Sync

\* one run of the generator against a repository of up to MaxOpenPRs open PRs
InitMain ==
    /\ GeneratorAtRest
    /\ PublisherAtRest
    /\ UnitsAtRest
    /\ reviews = <<>>
    /\ requested = {}
    /\ reviewer_states = EmptyDict
    /\ is_draft = FALSE
    /\ pr_status = ""
    /\ required_reviewers = {1}
    /\ n_open \in 0..MaxOpenPRs
    /\ runs_left = 1
    /\ publishes_left = 0
    /\ token = FALSE

SpecMain == InitMain /\ [][NextMain]_vars

(***************************************************************************)
(* update_wiki.main                                                        *)
(***************************************************************************)
MaxRuns == 2          \* generator runs of a pipeline
MaxPublishes == 2     \* publisher runs of a pipeline
MaxNow == 2           \* last clock tick
MaxPipelinePRs == 1   \* open PRs of the repository the pipeline reports on
DiffError == 128      \* exit code of a git diff that fails

\* run(cmd): subprocess.run(cmd, check=True); a failure raises and ends main
run(cmd, ok) == [cmd |-> cmd, ok |-> ok]
Ran(cmd) == \E i \in 1..Len(git_cmds) : git_cmds[i].cmd = cmd
Succeeded(cmd) == \E i \in 1..Len(git_cmds) : git_cmds[i].cmd = cmd /\ git_cmds[i].ok

\* exit code of the publisher process: sys.exit(1), an uncaught
\* CalledProcessError, or the normal end of main (-1 while it has not ended)
ExitCode ==
    CASE wpc = "exit1" -> 1
      [] wpc = "failed" -> 1
      [] wpc = "done" -> 0
      [] OTHER -> -1

\* glob.glob("*_PR_status.md") in the wiki directory
status_files == IF output_file.exists THEN {"PR_status.md"} ELSE {}

\* lines 26-31
W_Start ==
    /\ ~GeneratorRunning /\ ~PublisherRunning
    /\ publishes_left > 0
    /\ publishes_left' = publishes_left - 1
    /\ git_cmds' = <<>>
    /\ diff_rc' = -1
    /\ staged_diff' = FALSE
    /\ wpc' = IF token THEN "seturl" ELSE "glob"
    \* the generator process has exited: only its exit status is kept
    /\ pc' = pc
    /\ pr_list' = <<>>
    /\ idx' = 0
    /\ fields' = NoFields
    /\ gh_calls' = <<>>
    /\ log' = <<>>
    /\ reviews' = <<>>
    /\ requested' = {}
    /\ reviewer_states' = EmptyDict
    /\ is_draft' = FALSE
    /\ pr_status' = ""
    /\ UNCHANGED <<required_reviewers, output_file, runs_left, up_vars, hist_vars,
                   token, index, head>>
    /\ UNCHANGED unit_vars

\* lines 32-39: git remote set-url
W_SetUrl ==
    /\ wpc = "seturl"
    /\ \E ok \in BOOLEAN :
        /\ git_cmds' = Append(git_cmds, run("remote set-url", ok))
        /\ wpc' = IF ok THEN "glob" ELSE "failed"
    /\ UNCHANGED <<review_vars, gen_vars, up_vars, hist_vars, token, diff_rc,
                   staged_diff, index, head, publishes_left>>
    /\ UNCHANGED unit_vars

\* Mutant: the test for an empty status_files is missing
W_Glob_NoCheck ==
    /\ wpc = "glob"
    /\ wpc' = "add"
    /\ UNCHANGED <<review_vars, gen_vars, up_vars, hist_vars, token, git_cmds,
                   diff_rc, staged_diff, index, head, publishes_left>>
    /\ UNCHANGED unit_vars

\* lines 41-45
W_Glob ==
    /\ wpc = "glob"
    /\ wpc' = IF status_files = {} THEN "exit1" ELSE "add"
    /\ UNCHANGED <<review_vars, gen_vars, up_vars, hist_vars, token, git_cmds,
                   diff_rc, staged_diff, index, head, publishes_left>>
    /\ UNCHANGED unit_vars

\* line 48: git add
W_Add ==
    /\ wpc = "add"
    /\ \E ok \in BOOLEAN :
        /\ git_cmds' = Append(git_cmds, run("add", ok))
        /\ index' = IF ok THEN output_file ELSE index
        /\ wpc' = IF ok THEN "diff" ELSE "failed"
    /\ UNCHANGED <<review_vars, gen_vars, up_vars, hist_vars, token, diff_rc,
                   staged_diff, head, publishes_left>>
    /\ UNCHANGED unit_vars

\* Mutant: the test of diff.returncode is missing, the commit is always made
W_Diff_AlwaysCommit ==
    /\ wpc = "diff"
    /\ \E returncode \in {IF index # head THEN 1 ELSE 0, DiffError} :
        /\ git_cmds' = Append(git_cmds, run("diff", returncode \in {0, 1}))
        /\ diff_rc' = returncode
        /\ staged_diff' = (index # head)
        /\ wpc' = "config_name"
    /\ UNCHANGED <<review_vars, gen_vars, up_vars, hist_vars, token, index, head,
                   publishes_left>>
    /\ UNCHANGED unit_vars

\* lines 49-50, 56-57: git diff --cached --quiet exits 0 without differences,
\* 1 with differences, and with another code when it fails
W_Diff ==
    /\ wpc = "diff"
    /\ \E returncode \in {IF index # head THEN 1 ELSE 0, DiffError} :
        /\ git_cmds' = Append(git_cmds, run("diff", returncode \in {0, 1}))
        /\ diff_rc' = returncode
        /\ staged_diff' = (index # head)
        /\ wpc' = IF returncode # 0 THEN "config_name" ELSE "done"
    /\ UNCHANGED <<review_vars, gen_vars, up_vars, hist_vars, token, index, head,
                   publishes_left>>
    /\ UNCHANGED unit_vars

\* line 52
W_ConfigName ==
    /\ wpc = "config_name"
    /\ \E ok \in BOOLEAN :
        /\ git_cmds' = Append(git_cmds, run("config user.name", ok))
        /\ wpc' = IF ok THEN "config_email" ELSE "failed"
    /\ UNCHANGED <<review_vars, gen_vars, up_vars, hist_vars, token, diff_rc,
                   staged_diff, index, head, publishes_left>>
    /\ UNCHANGED unit_vars

\* line 53
W_ConfigEmail ==
    /\ wpc = "config_email"
    /\ \E ok \in BOOLEAN :
        /\ git_cmds' = Append(git_cmds, run("config user.email", ok))
        /\ wpc' = IF ok THEN "commit" ELSE "failed"
    /\ UNCHANGED <<review_vars, gen_vars, up_vars, hist_vars, token, diff_rc,
                   staged_diff, index, head, publishes_left>>
    /\ UNCHANGED unit_vars

\* line 54: git commit fails when there is nothing to commit
W_Commit ==
    /\ wpc = "commit"
    /\ \E ok \in (IF index # head THEN BOOLEAN ELSE {FALSE}) :
        /\ git_cmds' = Append(git_cmds, run("commit", ok))
        /\ head' = IF ok THEN index ELSE head
        /\ wpc' = IF ok THEN "push" ELSE "failed"
    /\ UNCHANGED <<review_vars, gen_vars, up_vars, hist_vars, token, diff_rc,
                   staged_diff, index, publishes_left>>
    /\ UNCHANGED unit_vars

\* line 55
W_Push ==
    /\ wpc = "push"
    /\ \E ok \in BOOLEAN :
        /\ git_cmds' = Append(git_cmds, run("push", ok))
        /\ wpc' = IF ok THEN "done" ELSE "failed"
    /\ UNCHANGED <<review_vars, gen_vars, up_vars, hist_vars, token, diff_rc,
                   staged_diff, index, head, publishes_left>>
    /\ UNCHANGED unit_vars

\* time passes between the runs
Tick ==
    /\ ~GeneratorRunning /\ ~PublisherRunning
    /\ pc # "idle"
    /\ runs_left > 0
    /\ now < MaxNow
    /\ now' = now + 1
    /\ UNCHANGED <<review_vars, gen_vars, n_open, upstream, hist_vars, wiki_vars>>
    /\ UNCHANGED unit_vars

NextPublisher ==
    \/ W_Start
    \/ W_SetUrl
    \/ W_Glob
    \/ W_Add
    \/ W_Diff
    \/ W_ConfigName
    \/ W_ConfigEmail
    \/ W_Commit
    \/ W_Push

\* upstreams of the pipeline: per PR, one of a few complete sets of answers
SampleProfiles ==
    { [details |-> [ok |-> TRUE, reviews |-> <<[author |-> 1, state |-> "APPROVED",
                                                submittedAt |-> 1]>>,
                    requested |-> {}],
       node |-> TRUE,
       project |-> [ok |-> TRUE, json_ok |-> TRUE,
                    nodes |-> <<[name |-> "Status", value |-> "Todo"]>>],
       sync |-> "copy"],
      [details |-> [ok |-> TRUE,
                    reviews |-> <<[author |-> 2, state |-> "COMMENTED", submittedAt |-> 2]>>,
                    requested |-> {3}],
       node |-> TRUE,
       project |-> [ok |-> TRUE, json_ok |-> TRUE,
                    nodes |-> <<[name |-> "Priority", value |-> "High"]>>],
       sync |-> "none"],
      [details |-> DetailsDefault, node |-> TRUE, project |-> ProjectFailure,
       sync |-> "fail"],
      [details |-> DetailsDefault, node |-> FALSE, project |-> ProjectDefault,
       sync |-> "none"] }

UpstreamOf(profiles, drafts) ==
    [list_asked |-> TRUE, list_ok |-> TRUE, drafts |-> drafts,
     details |-> [i \in DOMAIN profiles |-> profiles[i].details],
     node    |-> [i \in DOMAIN profiles |-> profiles[i].node],
     project |-> [i \in DOMAIN profiles |-> profiles[i].project],
     sync    |-> [i \in DOMAIN profiles |-> profiles[i].sync]]

\* the workflow: generator and publisher runs, one at a time, in any order
InitPipeline ==
    /\ pc = "idle"
    /\ pr_list = <<>>
    /\ idx = 0
    /\ fields = NoFields
    /\ gh_calls = <<>>
    /\ log = <<>>
    /\ output_file = NoFile
    /\ now = 0
    /\ prev_file = NoFile
    /\ prev_done = FALSE
    /\ same_as_prev = FALSE
    /\ dirty = FALSE
    /\ PublisherAtRest
    /\ UnitsAtRest
    /\ reviews = <<>>
    /\ requested = {}
    /\ reviewer_states = EmptyDict
    /\ is_draft = FALSE
    /\ pr_status = ""
    /\ required_reviewers = {1}
    /\ n_open \in 0..MaxPipelinePRs
    /\ \E profiles \in [1..n_open -> SampleProfiles], drafts \in {{}, {1} \cap (1..n_open)} :
          upstream = UpstreamOf(profiles, drafts)
    /\ runs_left = MaxRuns
    /\ publishes_left = MaxPublishes
    /\ token \in BOOLEAN

NextPipeline == NextMain \/ NextPublisher \/ Tick

SpecPipeline == InitPipeline /\ [][NextPipeline]_vars

(***************************************************************************)
(* Claims about determine_pr_status (checked under SpecClassifier)         *)
(***************************************************************************)
Classified == pr_status # ""
NoChangesRequested == \A u \in DOMAIN reviewer_states : reviewer_states[u] # "CHANGES_REQUESTED"
AllPending == \A u \in DOMAIN reviewer_states : reviewer_states[u] = "PENDING"
AllApproved == \A u \in DOMAIN reviewer_states : reviewer_states[u] = "APPROVED"
C1_Case ==
    /\ Classified /\ ~is_draft /\ NoChangesRequested
    /\ ~approval_met(reviewer_states, required_reviewers)

\* C1 (as stated): for a non-draft PR with no CHANGES_REQUESTED and approval
\* not met, the result is in-review whenever reviewer_states is non-empty
\* (also when every entry is PENDING), and unreviewed only when it is empty.
C1_AsStated ==
    C1_Case =>
        /\ (DOMAIN reviewer_states # {} => pr_status = "IN_REVIEW")
        /\ (pr_status = "UNREVIEWED" => DOMAIN reviewer_states = {})

\* C1 (amended): for a non-draft PR with no CHANGES_REQUESTED and approval not
\* met, the result is in-review exactly when some entry of reviewer_states is
\* not PENDING, and unreviewed exactly when reviewer_states is empty or every
\* entry is PENDING.
C1_InReviewUnlessAllPending ==
    C1_Case =>
        /\ (pr_status = "IN_REVIEW" <=> ~AllPending)
        /\ (pr_status = "UNREVIEWED" <=> AllPending)

C1_Witness ==
    /\ C1_Case /\ DOMAIN reviewer_states # {} /\ AllPending
    /\ pr_status = "UNREVIEWED"

\* C2 (as stated): the result is approved only if the PR is not a draft, no
\* reviewer is CHANGES_REQUESTED, and either every login of required_reviewers
\* is APPROVED in reviewer_states or reviewer_states is non-empty and all
\* APPROVED.
C2_AsStated ==
    pr_status = "APPROVED_LABEL" =>
        /\ ~is_draft
        /\ NoChangesRequested
        /\ \/ \A l \in required_reviewers :
                l \in DOMAIN reviewer_states /\ reviewer_states[l] = "APPROVED"
           \/ DOMAIN reviewer_states # {} /\ AllApproved

\* C2 (amended): the result is approved only if the PR is not a draft, no
\* reviewer is CHANGES_REQUESTED, and either at least one required reviewer
\* appears in reviewer_states and every required reviewer that appears there
\* is APPROVED, or reviewer_states is non-empty and all APPROVED.
C2_ApprovedOnlyIf ==
    pr_status = "APPROVED_LABEL" =>
        /\ ~is_draft
        /\ NoChangesRequested
        /\ \/ /\ required_reviewers \cap DOMAIN reviewer_states # {}
              /\ \A l \in required_reviewers \cap DOMAIN reviewer_states :
                    reviewer_states[l] = "APPROVED"
           \/ DOMAIN reviewer_states # {} /\ AllApproved

\* approved although a required reviewer has no entry and another reviewer
\* has not approved
C2_Witness ==
    /\ pr_status = "APPROVED_LABEL"
    /\ ~AllApproved
    /\ \E l \in required_reviewers : l \notin DOMAIN reviewer_states

\* C3: for every non-draft input in which some reviewer is CHANGES_REQUESTED
\* the result is the changes-requested label, even when every required
\* reviewer present has APPROVED.
C3_ChangesRequestedBeatsApproval ==
    (Classified /\ ~is_draft /\ ~NoChangesRequested)
        => pr_status = "CHANGES_REQUESTED_LABEL"

C3_Witness ==
    /\ Classified /\ ~is_draft /\ ~NoChangesRequested
    /\ required_reviewers \cap DOMAIN reviewer_states # {}
    /\ \A l \in required_reviewers \cap DOMAIN reviewer_states :
            reviewer_states[l] = "APPROVED"
    /\ pr_status = "CHANGES_REQUESTED_LABEL"

\* C4: when is_draft is true the result is the draft label for every
\* reviewer_states and required_reviewers, and the draft label is never
\* returned when is_draft is false.
C4_DraftShortCircuits ==
    Classified => (pr_status = "DRAFT" <=> is_draft)

C4_Witness ==
    /\ is_draft /\ pr_status = "DRAFT"
    /\ DOMAIN reviewer_states = {}

\* C5: for every mapping of reviewers to states (the empty one included),
\* every draft flag and every required-reviewer set, the call returns one of
\* the five labels.
C5_Total ==
    Classified => pr_status \in Labels

C5_Witness ==
    /\ pr_status = "IN_REVIEW"
    /\ \A u \in DOMAIN reviewer_states : reviewer_states[u] \in States
    /\ \E u \in DOMAIN reviewer_states : reviewer_states[u] = "COMMENTED"

(***************************************************************************)
(* Claims about the review aggregation (checked under SpecAggregate)       *)
(***************************************************************************)
ReviewAuthors == {reviews[i].author : i \in 1..Len(reviews)} \ {NoLogin}
ReviewsOf(a) == {i \in 1..Len(reviews) : reviews[i].author = a}
LatestOf(a) ==
    {i \in ReviewsOf(a) :
        \A j \in ReviewsOf(a) : reviews[j].submittedAt <= reviews[i].submittedAt}
\* among the reviews of a with the latest submittedAt, the last to arrive
LastLatestOf(a) == CHOOSE i \in LatestOf(a) : \A j \in LatestOf(a) : j <= i

\* C6 (as stated): for every review author the recorded state is the state of
\* that author's review with the latest submittedAt, whatever the arrival
\* order.
C6_AsStated ==
    Classified =>
        \A a \in ReviewAuthors :
            /\ a \in DOMAIN reviewer_states
            /\ \E i \in LatestOf(a) : reviewer_states[a] = reviews[i].state

\* C6 (amended): for every review author who is not currently in
\* reviewRequests, the recorded state is the state of that author's review
\* with the latest submittedAt (the last to arrive of them when several share
\* that submittedAt), whatever the arrival order; an author who is in
\* reviewRequests is recorded as PENDING.
C6_LatestWinsUnlessRequested ==
    Classified =>
        /\ \A a \in ReviewAuthors \ requested :
            /\ a \in DOMAIN reviewer_states
            /\ reviewer_states[a] = reviews[LastLatestOf(a)].state
        /\ \A a \in ReviewAuthors \cap requested :
            /\ a \in DOMAIN reviewer_states
            /\ reviewer_states[a] = "PENDING"

\* an author's later review arrives before the earlier one
C6_Witness ==
    /\ Classified
    /\ \E i, j \in 1..Len(reviews) :
        /\ i < j
        /\ reviews[i].author = reviews[j].author
        /\ reviews[i].author \in Logins \ requested
        /\ reviews[i].submittedAt > reviews[j].submittedAt
        /\ reviews[i].state # reviews[j].state
        /\ reviewer_states[reviews[i].author] = reviews[i].state

(***************************************************************************)
(* Claims about the report generator and the publisher                     *)
(***************************************************************************)
Rows == output_file.rows
\* this run completed, the previous one completed too, and upstream gave both
\* the same answers
RerunOnSameData == pc = "done" /\ prev_done /\ same_as_prev
\* the publisher has run git diff and has not committed yet
DiffJustRan == diff_rc # -1 /\ ~Ran("commit")

\* C7 (as stated): re-running the generator on identical upstream data gives a
\* byte-identical output file, so the publisher's staged diff is empty.
C7_AsStated ==
    /\ RerunOnSameData => output_file = prev_file
    /\ (RerunOnSameData /\ DiffJustRan /\ head = prev_file) => ~staged_diff

\* C7 (amended): re-running the generator on identical upstream data gives an
\* output file with the same rows; the file is byte-identical, and the staged
\* diff against a HEAD holding the previous file empty, exactly when both runs
\* rendered the same Updated timestamp.
C7_SameRowsNewTimestamp ==
    /\ RerunOnSameData =>
          /\ output_file.rows = prev_file.rows
          /\ output_file.exists /\ prev_file.exists
          /\ (output_file = prev_file <=> output_file.updated = prev_file.updated)
    /\ (RerunOnSameData /\ DiffJustRan /\ head = prev_file) =>
          (staged_diff <=> output_file.updated # prev_file.updated)

C7_Witness ==
    /\ RerunOnSameData
    /\ Len(Rows) >= 1
    /\ output_file.updated # prev_file.updated
    /\ DiffJustRan /\ head = prev_file /\ staged_diff

\* C8: after a run that completes, the output file has exactly one data row
\* per open pull request of the target repository.
C8_AsStated ==
    pc = "done" =>
        /\ Len(Rows) = n_open
        /\ \A n \in 1..n_open :
              Cardinality({i \in 1..Len(Rows) : Rows[i].number = n}) = 1

FailedCalls == {i \in 1..Len(gh_calls) : gh_calls[i].rc # 0}
Logged(c) ==
    \E j \in 1..Len(log) :
        log[j] = [msg |-> "gh command failed", text |-> c.cmd, pr |-> c.pr]
NotRetried(i) ==
    \A j \in 1..Len(gh_calls) :
        (gh_calls[j].cmd = gh_calls[i].cmd /\ gh_calls[j].pr = gh_calls[i].pr) => j = i
\* no row of the PR the command was run for, nor of a later PR
NoRowFrom(number) == \A k \in 1..Len(Rows) : Rows[k].number < number
AbortingCommands == {"pr_list", "pr_view_details", "pr_view_id"}

\* C9 (as stated): when a command run by run_gh exits non-zero, the error is
\* logged, the command is not retried and the whole run aborts: no row is
\* written for the PR being processed or for any later PR.
C9_AsStated ==
    \A i \in FailedCalls :
        /\ Logged(gh_calls[i])
        /\ NotRetried(i)
        /\ i = Len(gh_calls)
        /\ pc = "aborted"
        /\ NoRowFrom(gh_calls[i].pr)

\* C9 (amended): when a command run by run_gh exits non-zero, the error is
\* logged and the command is not retried.  If the command is gh pr list or
\* one of the two gh pr view calls, the whole run aborts: no row is written
\* for the PR being processed or for any later PR.  A failure of the project
\* field query or of the Issue synchronisation is caught and the run goes on:
\* the row of the PR is written, with "-" for the project fields when the
\* project query failed, and a run that is not aborted by one of the three
\* commands above completes with a row for every listed PR.
C9_AbortsOnListAndView ==
    /\ \A i \in FailedCalls :
        /\ Logged(gh_calls[i])
        /\ NotRetried(i)
        /\ gh_calls[i].cmd \in AbortingCommands =>
              /\ i = Len(gh_calls)
              /\ pc = "aborted"
              /\ NoRowFrom(gh_calls[i].pr)
        /\ gh_calls[i].cmd = "graphql_project" =>
              /\ pc # "aborted" => (pc = "row" \/ ~NoRowFrom(gh_calls[i].pr))
              /\ \A k \in 1..Len(Rows) :
                    Rows[k].number = gh_calls[i].pr => Rows[k].fields = NoFields
        /\ gh_calls[i].cmd = "graphql_sync" => ~NoRowFrom(gh_calls[i].pr)
    /\ pc = "done" => \A n \in 1..Len(pr_list) : Rows[n].number = pr_list[n].number
    /\ pc = "aborted" =>
          /\ gh_calls # <<>>
          /\ gh_calls[Len(gh_calls)].rc # 0
          /\ gh_calls[Len(gh_calls)].cmd \in AbortingCommands
    /\ Cardinality({j \in 1..Len(log) : log[j].msg = "gh command failed"})
          = Cardinality(FailedCalls)

\* the run aborts at the second PR, after the row of the first
C9_Witness ==
    /\ pc = "aborted"
    /\ Len(Rows) = 1
    /\ gh_calls[Len(gh_calls)].rc # 0
    /\ gh_calls[Len(gh_calls)].pr = 2

ConfigCommitOrPushRan ==
    \/ Ran("config user.name") \/ Ran("config user.email")
    \/ Ran("commit") \/ Ran("push")

\* C10 (as stated): the publisher executes git commit and git push if and only
\* if the staged diff is non-empty; when it is empty, no commit, no push and no
\* git config command is executed.
C10_AsStated ==
    (wpc \in {"done", "failed"} /\ diff_rc # -1) =>
        /\ (Ran("commit") /\ Ran("push")) <=> staged_diff
        /\ ~staged_diff => ~ConfigCommitOrPushRan

\* C10 (amended): the publisher runs git config user.name, git config
\* user.email, git commit and git push, in this order and each only after the
\* previous one succeeded, exactly when git diff --cached --quiet exits
\* non-zero (1 when the staged diff is non-empty, another code when git diff
\* fails); when it exits 0 the diff is empty and no commit, no push and no git
\* config command is executed.
C10_CommitOnlyOnNonZeroDiff ==
    /\ ConfigCommitOrPushRan => diff_rc \notin {-1, 0}
    /\ diff_rc = 0 => ~staged_diff /\ wpc = "done"
    /\ diff_rc = 1 => staged_diff
    /\ Ran("config user.email") => Succeeded("config user.name")
    /\ Ran("commit") => Succeeded("config user.email")
    /\ Ran("push") => Succeeded("commit")
    /\ (wpc = "done" /\ diff_rc \notin {-1, 0}) => Succeeded("commit") /\ Succeeded("push")
    /\ (wpc = "failed" /\ diff_rc \notin {-1, 0}) =>
          /\ ~git_cmds[Len(git_cmds)].ok
          /\ git_cmds[Len(git_cmds)].cmd # "diff"
    /\ (wpc \in {"done", "failed"} /\ diff_rc \notin {-1, 0}) =>
          /\ Ran("config user.name")
          /\ Succeeded("config user.name") => Ran("config user.email")
          /\ Succeeded("config user.email") => Ran("commit")
          /\ Succeeded("commit") => Ran("push")

C10_Witness ==
    /\ wpc = "done"
    /\ staged_diff /\ diff_rc = 1
    /\ Succeeded("commit") /\ Succeeded("push")

\* C11: if no *_PR_status.md file exists in the wiki directory, the publisher
\* ends with exit code 1 and executes no git add, git commit or git push.
C11_NoFileExitsOne ==
    (wpc # "idle" /\ status_files = {}) =>
        /\ wpc \in {"seturl", "glob", "exit1", "failed"}
        /\ ExitCode \in {-1, 1}
        /\ ~PublisherRunning => ExitCode = 1
        /\ ~Ran("add") /\ ~Ran("commit") /\ ~Ran("push")

C11_Witness ==
    /\ status_files = {}
    /\ wpc = "exit1"
    /\ ExitCode = 1
    /\ ~Ran("add")

\* the project field fetch of PR n was made in this run and failed: gh exited
\* non-zero, or its output was not valid JSON
ProjectFetchMade(n) ==
    \E i \in 1..Len(gh_calls) : gh_calls[i].cmd = "graphql_project" /\ gh_calls[i].pr = n
ProjectFetchFailed(n) ==
    /\ ProjectFetchMade(n)
    /\ ~upstream.project[n].ok \/ ~upstream.project[n].json_ok
ProjectFailureLogged(n) ==
    \E j \in 1..Len(log) :
        /\ log[j].pr = n
        /\ log[j].msg = IF upstream.project[n].ok THEN "PROJECT_JSON parse failed"
                        ELSE "PROJECT_JSON fetch failed"
RowWritten(n) == \E k \in 1..Len(Rows) : Rows[k].number = n

\* C12: if the project field fetch of a PR fails (non-zero exit of gh, or
\* output that is not valid JSON), the failure is logged, Status, Priority,
\* Target Date and Sprint are all "-", the row of that PR is still written and
\* the run continues with the next PR.
C12_ProjectFailureGivesPlaceholders ==
    \A n \in 1..Len(pr_list) :
        ProjectFetchFailed(n) =>
            /\ ProjectFailureLogged(n)
            /\ (pc = "row" /\ idx = n) => fields = NoFields
            /\ RowWritten(n) \/ (pc = "row" /\ idx = n)
            /\ \A k \in 1..Len(Rows) :
                  Rows[k].number = n => Rows[k].fields = NoFields
            /\ pc = "aborted" => idx > n
            /\ pc = "done" => Len(Rows) = Len(pr_list)
            /\ (RowWritten(n) /\ ~(pc = "sync" /\ idx = n)) => idx > n

\* the fetch failed for the first of two PRs and the run completed
C12_Witness ==
    /\ pc = "done"
    /\ Len(pr_list) = 2
    /\ ProjectFetchFailed(1)
    /\ Len(Rows) = 2
    /\ Rows[1].fields = NoFields
    /\ Rows[2].fields # NoFields

(***************************************************************************)
(* python/logging.py: the handler of the serverless function               *)
(***************************************************************************)
MaxRequestIds == 3     \* distinct request ids the platform hands out
MaxInvocations == 2    \* invocations of one loaded module

RequestIds == 1..MaxRequestIds

\* the generator, the publisher and the classifier inputs are at rest
ScriptsAtRest ==
    /\ GeneratorAtRest
    /\ PublisherAtRest
    /\ n_open = 0 /\ runs_left = 0 /\ publishes_left = 0 /\ token = FALSE
    /\ reviews = <<>> /\ requested = {} /\ reviewer_states = EmptyDict
    /\ is_draft = FALSE /\ required_reviewers = {} /\ pr_status = ""

\* JsonFormatter.format (lines 21-48): the request id is added only when the
\* global (global_id, its value when the record is formatted) is truthy; `invocation` is the request id of the invocation that is
\* running when the record is emitted (history, not part of the record)
format(message, global_id) ==
    [message |-> message,
     has_aws_request_id |-> global_id # NoRequestId,
     aws_request_id |-> global_id,
     invocation |-> request]

\* lines 76-85: the module body; init_logging configures the logger once and
\* logs 'Logging is initialized' through the new handler
L_Import ==
    /\ lpc = "unloaded"
    /\ aws_request_id' = NoRequestId
    /\ IF handlers = 0
       THEN /\ handlers' = 1
            /\ records' = Append(records,
                               format("Logging is initialized", aws_request_id'))
       ELSE UNCHANGED <<handlers, records>>
    /\ lpc' = "ready"
    /\ UNCHANGED <<request, invocations_left>>
    /\ UNCHANGED <<script_vars, assignee_vars, sync_vars, load_vars, catalog_vars>>

\* Mutant: the handler without the `global` statement assigns a local
L_Invoke_NoGlobal(rid) ==
    /\ lpc = "ready"
    /\ invocations_left > 0
    /\ invocations_left' = invocations_left - 1
    /\ request' = rid
    /\ lpc' = "warning"
    /\ UNCHANGED <<aws_request_id, handlers, records>>
    /\ UNCHANGED <<script_vars, assignee_vars, sync_vars, load_vars, catalog_vars>>

\* lines 87-90: lambda_handler is entered and stores the request id
L_Invoke(rid) ==
    /\ lpc = "ready"
    /\ invocations_left > 0
    /\ invocations_left' = invocations_left - 1
    /\ request' = rid
    /\ aws_request_id' = rid
    /\ lpc' = "warning"
    /\ UNCHANGED <<handlers, records>>
    /\ UNCHANGED <<script_vars, assignee_vars, sync_vars, load_vars, catalog_vars>>

\* lines 92-95: 0/0 raises, the except block logs a warning
L_Warning ==
    /\ lpc = "warning"
    /\ records' = Append(records, format("warning", aws_request_id))
    /\ lpc' = "list_bucket"
    /\ UNCHANGED <<aws_request_id, handlers, request, invocations_left>>
    /\ UNCHANGED <<script_vars, assignee_vars, sync_vars, load_vars, catalog_vars>>

\* lines 66-74, 100: list_bucket logs the response unless list_buckets raises
list_bucket ==
    /\ lpc = "list_bucket"
    /\ \E ok \in BOOLEAN :
          records' = IF ok THEN Append(records, format("list_bucket response", aws_request_id))
                     ELSE records
    /\ lpc' = "context"
    /\ UNCHANGED <<aws_request_id, handlers, request, invocations_left>>
    /\ UNCHANGED <<script_vars, assignee_vars, sync_vars, load_vars, catalog_vars>>

\* line 104
L_Context ==
    /\ lpc = "context"
    /\ records' = Append(records, format("context", aws_request_id))
    /\ lpc' = "return"
    /\ UNCHANGED <<aws_request_id, handlers, request, invocations_left>>
    /\ UNCHANGED <<script_vars, assignee_vars, sync_vars, load_vars, catalog_vars>>

\* lines 106-109: the invocation ends; the global keeps its value
L_Return ==
    /\ lpc = "return"
    /\ request' = NoRequestId
    /\ lpc' = "ready"
    /\ UNCHANGED <<aws_request_id, handlers, records, invocations_left>>
    /\ UNCHANGED <<script_vars, assignee_vars, sync_vars, load_vars, catalog_vars>>

InitLogging ==
    /\ ScriptsAtRest
    /\ AssigneesAtRest /\ SyncAtRest /\ LoadAtRest /\ CatalogAtRest
    /\ lpc = "unloaded"
    /\ aws_request_id = NoRequestId
    /\ handlers = 0
    /\ records = <<>>
    /\ request = NoRequestId
    /\ invocations_left = MaxInvocations

NextLogging ==
    \/ L_Import
    \/ \E rid \in RequestIds : L_Invoke(rid)
    \/ L_Warning
    \/ list_bucket
    \/ L_Context
    \/ L_Return

SpecLogging == InitLogging /\ [][NextLogging]_vars

(***************************************************************************)
(* Claims about python/logging.py (checked under SpecLogging)              *)
(***************************************************************************)
\* C13 as stated: every record emitted through the configured logger has an
\* aws_request_id field, equal to the request id of the invocation during which
\* it was emitted.
C13_AsStated ==
    \A i \in 1..Len(records) :
        /\ records[i].has_aws_request_id
        /\ records[i].aws_request_id = records[i].invocation

\* C13: every record emitted during an invocation of lambda_handler has an
\* aws_request_id field equal to the request id of that invocation; the record
\* emitted while the module is imported, before any invocation, has no
\* aws_request_id field.
C13_RequestIdDuringInvocation ==
    \A i \in 1..Len(records) :
        IF records[i].invocation # NoRequestId
        THEN /\ records[i].has_aws_request_id
             /\ records[i].aws_request_id = records[i].invocation
        ELSE /\ ~records[i].has_aws_request_id
             /\ records[i].message = "Logging is initialized"

\* records of two invocations with different request ids, after the record of
\* the module initialisation
C13_Witness ==
    /\ Len(records) >= 3
    /\ ~records[1].has_aws_request_id
    /\ \E i, j \in 2..Len(records) :
          /\ i < j
          /\ records[i].has_aws_request_id /\ records[j].has_aws_request_id
          /\ records[i].aws_request_id # records[j].aws_request_id

(***************************************************************************)
(* Further claims about the review aggregation (checked under SpecAggregate)*)
(***************************************************************************)
\* C14: a reviewer who is currently in reviewRequests is recorded as PENDING,
\* whatever reviews that reviewer submitted earlier.
C14_RequestedStaysPending ==
    Classified =>
        \A a \in requested :
            /\ a \in DOMAIN reviewer_states
            /\ reviewer_states[a] = "PENDING"

\* a re-requested reviewer whose every earlier review approved, recorded as PENDING
C14_Witness ==
    /\ Classified
    /\ \E a \in requested :
          /\ ReviewsOf(a) # {}
          /\ \A i \in ReviewsOf(a) : reviews[i].state = "APPROVED"
          /\ reviewer_states[a] = "PENDING"

(***************************************************************************)
(* sync_pr_assignees_if_empty_from_issue (lines 434-503)                   *)
(***************************************************************************)
MaxUsers == 2     \* users that can be assigned

Users == 1..MaxUsers

\* one gh api graphql invocation of the assignee functions; target_assignees
\* is the set of users assigned to the PR when the call is made
AssigneeCall(cmd, ok, ids) ==
    [cmd |-> cmd, ok |-> ok, ids |-> ids, target_assignees |-> pr_assignee_ids]

\* lines 434-455 and 498-500: any exception of the query gives []
get_assignee_user_ids_for_pr ==
    /\ apc = "pr_query"
    /\ \E ok \in BOOLEAN :
          /\ pr_assignees' = IF ok THEN pr_assignee_ids ELSE {}
          /\ assignee_calls' = Append(assignee_calls, AssigneeCall("pr_assignees", ok, {}))
    /\ apc' = IF pr_assignees' # {} THEN "returned" ELSE "issue_query"
    /\ UNCHANGED <<pr_assignee_ids, issue_assignee_ids, issue_assignees>>
    /\ UNCHANGED <<script_vars, logging_vars, sync_vars, load_vars, catalog_vars>>

\* lines 457-478 and 501-502
get_assignee_user_ids_for_issue ==
    /\ apc = "issue_query"
    /\ \E ok \in BOOLEAN :
          /\ issue_assignees' = IF ok THEN issue_assignee_ids ELSE {}
          /\ assignee_calls' = Append(assignee_calls, AssigneeCall("issue_assignees", ok, {}))
    /\ apc' = IF issue_assignees' # {} THEN "add" ELSE "returned"
    /\ UNCHANGED <<pr_assignee_ids, issue_assignee_ids, pr_assignees>>
    /\ UNCHANGED <<script_vars, logging_vars, sync_vars, load_vars, catalog_vars>>

\* lines 480-494 and 503: the mutation adds the users to the PR's assignees
add_assignees_to_assignable ==
    /\ apc = "add"
    /\ \E ok \in BOOLEAN :
          /\ assignee_calls' = Append(assignee_calls,
                 AssigneeCall("addAssigneesToAssignable", ok, issue_assignees))
          /\ pr_assignee_ids' = IF ok THEN pr_assignee_ids \cup issue_assignees
                                ELSE pr_assignee_ids
    /\ apc' = "returned"
    /\ UNCHANGED <<issue_assignee_ids, pr_assignees, issue_assignees>>
    /\ UNCHANGED <<script_vars, logging_vars, sync_vars, load_vars, catalog_vars>>

\* one call of the function, for a PR and an Issue with any assignees
InitAssignees ==
    /\ ScriptsAtRest
    /\ LoggingAtRest /\ SyncAtRest /\ LoadAtRest /\ CatalogAtRest
    /\ apc = "pr_query"
    /\ pr_assignee_ids \in SUBSET Users
    /\ issue_assignee_ids \in SUBSET Users
    /\ pr_assignees = {}
    /\ issue_assignees = {}
    /\ assignee_calls = <<>>

sync_pr_assignees_if_empty_from_issue ==
    \/ get_assignee_user_ids_for_pr
    \/ get_assignee_user_ids_for_issue
    \/ add_assignees_to_assignable

SpecAssignees == InitAssignees /\ [][sync_pr_assignees_if_empty_from_issue]_vars

\* C15 as stated: a PR that already has at least one assignee never receives
\* an addAssigneesToAssignable mutation, also in runs where an assignee query
\* fails.
C15_AsStated ==
    \A i \in 1..Len(assignee_calls) :
        assignee_calls[i].cmd = "addAssigneesToAssignable" =>
            assignee_calls[i].target_assignees = {}

(***************************************************************************)
(* sync_if_empty_same_project (lines 335-432)                              *)
(***************************************************************************)
None == "None"     \* Python's None among the strings of a JSON document

Truthy(v) == v \notin {None, ""}
Or(a, b) == IF Truthy(a) THEN a ELSE b
Get(d, k) == IF k \in DOMAIN d THEN d[k] ELSE None

want == <<"Priority", "Target Date", "Sprint">>
FieldNames == {"Priority", "Target Date", "Sprint", "Status"}

\* a node of fieldValues: the field's name and the value under the key of its type
FieldValue(fname, key, v) ==
    [field  |-> fname,
     name   |-> IF key = "name" THEN v ELSE None,
     date   |-> IF key = "date" THEN v ELSE None,
     title  |-> IF key = "title" THEN v ELSE None,
     text   |-> IF key = "text" THEN v ELSE None,
     number |-> IF key = "number" THEN v ELSE None]

\* lines 335-352
RECURSIVE ExtractValues(_, _)
ExtractValues(result, nodes) ==
    IF nodes = <<>> THEN result
    ELSE LET fv == Head(nodes)
             value == Or(fv.name, Or(fv.date, Or(fv.title, Or(fv.text, fv.number))))
         IN  IF ~Truthy(fv.field) THEN ExtractValues(result, Tail(nodes))
             ELSE IF value # None
             THEN ExtractValues([k \in DOMAIN result \cup {fv.field} |->
                                    IF k = fv.field THEN value ELSE result[k]],
                                Tail(nodes))
             ELSE ExtractValues(result, Tail(nodes))

extract_field_value_map(field_values_nodes) == ExtractValues(EmptyDict, field_values_nodes)

\* update_single_select, update_date, update_iteration (lines 354-409): one
\* updateProjectV2ItemFieldValue mutation; a failure is logged and swallowed
Update(fn, item, fname, fmeta, v) ==
    [fn |-> fn, projectId |-> item.projectId, itemId |-> item.id,
     field |-> fname, fieldId |-> fmeta.fieldId, value |-> v]

\* Mutant: the copy is made whether or not the PR has a value
UpdatesFor_Overwrite(fname, pr_map, issue_map, catalog, item) ==
    LET issue_v == Get(issue_map, fname)
    IN  IF ~Truthy(issue_v) THEN <<>>
        ELSE IF fname \notin DOMAIN catalog THEN <<>>
        ELSE LET fmeta == catalog[fname]
             IN  CASE fmeta.type = "SINGLE_SELECT" ->
                        IF Truthy(Get(fmeta.options, issue_v))
                        THEN <<Update("update_single_select", item, fname, fmeta,
                                      Get(fmeta.options, issue_v))>>
                        ELSE <<>>
                   [] fmeta.type = "DATE" ->
                        <<Update("update_date", item, fname, fmeta, issue_v)>>
                   [] fmeta.type = "ITERATION" ->
                        IF Truthy(Get(fmeta.iterations, issue_v))
                        THEN <<Update("update_iteration", item, fname, fmeta,
                                      Get(fmeta.iterations, issue_v))>>
                        ELSE <<>>
                   [] OTHER -> <<>>

\* lines 417-432: the body of the loop, for one field name
UpdatesFor(fname, pr_map, issue_map, catalog, item) ==
    LET pr_v == Get(pr_map, fname)
        issue_v == Get(issue_map, fname)
    IN  IF ~((pr_v = None \/ pr_v = "") /\ Truthy(issue_v)) THEN <<>>
        ELSE IF fname \notin DOMAIN catalog THEN <<>>
        ELSE LET fmeta == catalog[fname]
             IN  CASE fmeta.type = "SINGLE_SELECT" ->
                        IF Truthy(Get(fmeta.options, issue_v))
                        THEN <<Update("update_single_select", item, fname, fmeta,
                                      Get(fmeta.options, issue_v))>>
                        ELSE <<>>
                   [] fmeta.type = "DATE" ->
                        <<Update("update_date", item, fname, fmeta, issue_v)>>
                   [] fmeta.type = "ITERATION" ->
                        IF Truthy(Get(fmeta.iterations, issue_v))
                        THEN <<Update("update_iteration", item, fname, fmeta,
                                      Get(fmeta.iterations, issue_v))>>
                        ELSE <<>>
                   [] OTHER -> <<>>

\* lines 411-416: the loop over want
RECURSIVE UpdatesOver(_, _, _, _, _)
UpdatesOver(names, pr_map, issue_map, catalog, item) ==
    IF names = <<>> THEN <<>>
    ELSE UpdatesFor(Head(names), pr_map, issue_map, catalog, item)
         \o UpdatesOver(Tail(names), pr_map, issue_map, catalog, item)

sync_if_empty_same_project ==
    /\ ~sync_called
    /\ mutations' = UpdatesOver(want, extract_field_value_map(pr_item.fieldValues),
                                extract_field_value_map(issue_item.fieldValues),
                                field_catalog, pr_item)
    /\ sync_called' = TRUE
    /\ UNCHANGED <<pr_item, issue_item, field_catalog>>
    /\ UNCHANGED <<script_vars, logging_vars, assignee_vars, load_vars, catalog_vars>>

\* a catalog entry as get_project_field_catalog builds it (lines 320-329)
Meta(fname, type) ==
    [fieldId |-> fname, type |-> type,
     options |-> IF type = "SINGLE_SELECT" THEN [o \in {"A"} |-> "optA"] ELSE EmptyDict,
     iterations |-> IF type = "ITERATION" THEN [t \in {"A"} |-> "itA"] ELSE EmptyDict]

SampleCatalogs ==
    { EmptyDict,
      [f \in FieldNames |->
          Meta(f, CASE f = "Priority" -> "SINGLE_SELECT" [] f = "Target Date" -> "DATE"
                    [] f = "Sprint" -> "ITERATION" [] OTHER -> "SINGLE_SELECT")],
      [f \in FieldNames |->
          Meta(f, CASE f = "Priority" -> "DATE" [] f = "Target Date" -> "ITERATION"
                    [] f = "Sprint" -> "SINGLE_SELECT" [] OTHER -> "DATE")],
      [f \in {"Target Date", "Status"} |->
          Meta(f, IF f = "Status" THEN "TEXT" ELSE "DATE")] }

\* what an item can hold for a field: nothing, an empty text, a value
PRValues(f) == { <<>>, <<FieldValue(f, "text", "")>>, <<FieldValue(f, "name", "A")>> }
IssueValues(f) == { <<>>, <<FieldValue(f, "name", "A")>>, <<FieldValue(f, "date", "B")>> }

\* one call, on the items of a PR and its Issue in one project; the PR item
\* also holds a node of a type the query has no fragment for
InitSync ==
    /\ ScriptsAtRest
    /\ LoggingAtRest /\ AssigneesAtRest /\ LoadAtRest /\ CatalogAtRest
    /\ \E p1 \in PRValues("Priority"), p2 \in PRValues("Target Date"),
          p3 \in PRValues("Sprint") :
          pr_item = [id |-> "pr_item", projectId |-> "project",
                     fieldValues |-> <<FieldValue(None, "name", "A")>> \o p1 \o p2 \o p3]
    /\ \E i1 \in IssueValues("Priority"), i2 \in IssueValues("Target Date"),
          i3 \in IssueValues("Sprint"), i4 \in {<<>>, <<FieldValue("Status", "name", "A")>>} :
          issue_item = [id |-> "issue_item", projectId |-> "project",
                        fieldValues |-> i4 \o i1 \o i2 \o i3]
    /\ field_catalog \in SampleCatalogs
    /\ mutations = <<>>
    /\ sync_called = FALSE

NextSync == sync_if_empty_same_project

SpecSync == InitSync /\ [][NextSync]_vars

(***************************************************************************)
(* Claims about sync_if_empty_same_project (checked under SpecSync)        *)
(***************************************************************************)
\* the values an item holds for a field, read off the nodes
ValuesOf(item, f) ==
    { v \in {"", "A", "B"} :
        \E i \in 1..Len(item.fieldValues) :
            /\ item.fieldValues[i].field = f
            /\ v \in {item.fieldValues[i].name, item.fieldValues[i].date,
                      item.fieldValues[i].title, item.fieldValues[i].text,
                      item.fieldValues[i].number} }
AbsentOrEmpty(item, f) == ValuesOf(item, f) \subseteq {""}
MutationsOf(f) == {i \in 1..Len(mutations) : mutations[i].field = f}

\* C16: a call of sync_if_empty_same_project issues an update mutation for a
\* field only if the field is Priority, Target Date or Sprint, the PR item's
\* value for it is absent or empty and the Issue item's value is non-empty; a
\* non-empty PR value is never overwritten and no field gets more than one
\* mutation in a call.
C16_CopyOnlyIntoEmpty ==
    sync_called =>
        /\ \A i \in 1..Len(mutations) :
              /\ mutations[i].field \in {"Priority", "Target Date", "Sprint"}
              /\ AbsentOrEmpty(pr_item, mutations[i].field)
              /\ ~AbsentOrEmpty(issue_item, mutations[i].field)
              /\ mutations[i].itemId = pr_item.id
        /\ \A f \in FieldNames :
              /\ ~AbsentOrEmpty(pr_item, f) => MutationsOf(f) = {}
              /\ Cardinality(MutationsOf(f)) <= 1

\* a call that copies two fields and leaves alone a field that has a value in
\* both items and a Status that only the Issue has
C16_Witness ==
    /\ sync_called
    /\ Len(mutations) = 2
    /\ \E f \in {"Priority", "Target Date", "Sprint"} :
          /\ ~AbsentOrEmpty(pr_item, f)
          /\ ~AbsentOrEmpty(issue_item, f)
    /\ ~AbsentOrEmpty(issue_item, "Status")
    /\ "Status" \in DOMAIN field_catalog

(***************************************************************************)
(* The LOGIN_USERS_B64 block of main (lines 519-545)                       *)
(***************************************************************************)
MaxLoginUsers == 2     \* entries of the loginUsers list

Organizations == {"X", "Y"}

\* an entry of loginUsers: an object with some of the three keys, or a JSON
\* value that is not an object (item.get raises AttributeError)
NotAnObject == [is_dict |-> FALSE, loginUser |-> NoLogin, organization |-> None,
                requiredReviewer |-> FALSE]
LoginUserItems ==
    [is_dict : {TRUE}, loginUser : Logins \cup {NoLogin},
     organization : Organizations \cup {None}, requiredReviewer : BOOLEAN]
        \cup {NotAnObject}

\* LOGIN_USERS_B64: unset, not base64, not JSON, a JSON document that is not
\* an object, or an object with a loginUsers list
EncodedValues ==
    { Unset,
      [kind |-> "bad_base64", loginUsers |-> <<>>],
      [kind |-> "bad_json", loginUsers |-> <<>>],
      [kind |-> "not_object", loginUsers |-> <<>>] }
        \cup [kind : {"object"}, loginUsers : SeqsUpTo(LoginUserItems, MaxLoginUsers)]

\* lines 531-540: the loop; an exception leaves the three collections as they are
RECURSIVE LoadItems(_, _)
LoadItems(st, items) ==
    IF items = <<>> THEN st
    ELSE LET item == Head(items)
             login == item.loginUser
             org == item.organization
         IN  IF ~item.is_dict THEN [st EXCEPT !.raised = TRUE]
             ELSE IF login # NoLogin /\ org # None
             THEN LoadItems(
                    [st EXCEPT
                       !.login_user_map = [l \in DOMAIN st.login_user_map \cup {login} |->
                                              IF l = login THEN org ELSE st.login_user_map[l]],
                       !.org_order = IF \E k \in 1..Len(st.org_order) : st.org_order[k] = org
                                     THEN st.org_order ELSE Append(st.org_order, org),
                       !.required_reviewers = IF item.requiredReviewer
                                              THEN st.required_reviewers \cup {login}
                                              ELSE st.required_reviewers],
                    Tail(items))
             ELSE LoadItems(st, Tail(items))

\* lines 520-545, from the three empty collections
LoadLoginUsers(enc) ==
    LET empty == [login_user_map |-> EmptyDict, org_order |-> <<>>,
                  required_reviewers |-> {}, raised |-> FALSE]
    IN  CASE enc.kind = "unset" -> empty
          [] enc.kind \in {"bad_base64", "bad_json", "not_object"} ->
                [empty EXCEPT !.raised = TRUE]
          [] OTHER -> LoadItems(empty, enc.loginUsers)

G_LoadLoginUsers ==
    /\ ~users_loaded
    /\ LET r == LoadLoginUsers(encoded)
       IN  /\ login_user_map' = r.login_user_map
           /\ org_order' = r.org_order
           /\ required_reviewers' = r.required_reviewers
           /\ log' = IF r.raised
                     THEN Append(log, [msg |-> "LOGIN_USERS_B64 decode failed",
                                       text |-> encoded.kind, pr |-> 0])
                     ELSE log
    /\ users_loaded' = TRUE
    /\ UNCHANGED <<encoded, reviews, requested, reviewer_states, is_draft, pr_status>>
    /\ UNCHANGED <<pc, pr_list, idx, fields, gh_calls, output_file, runs_left>>
    /\ UNCHANGED <<up_vars, hist_vars, wiki_vars>>
    /\ UNCHANGED <<logging_vars, assignee_vars, sync_vars, catalog_vars>>

InitLoadUsers ==
    /\ ScriptsAtRest
    /\ LoggingAtRest /\ AssigneesAtRest /\ SyncAtRest /\ CatalogAtRest
    /\ encoded \in EncodedValues
    /\ login_user_map = EmptyDict
    /\ org_order = <<>>
    /\ users_loaded = FALSE

NextLoadUsers == G_LoadLoginUsers

SpecLoadUsers == InitLoadUsers /\ [][NextLoadUsers]_vars

\* C17 as stated: if decoding or parsing LOGIN_USERS_B64 raises at any point,
\* the error is logged and the run goes on with an empty login-to-organization
\* mapping, an empty organization order and an empty required-reviewer set.
C17_AsStated ==
    (users_loaded /\ LoadLoginUsers(encoded).raised) =>
        /\ \E i \in 1..Len(log) : log[i].msg = "LOGIN_USERS_B64 decode failed"
        /\ login_user_map = EmptyDict
        /\ org_order = <<>>
        /\ required_reviewers = {}

(***************************************************************************)
(* get_project_field_catalog and its cache (lines 125-126, 282-333)        *)
(***************************************************************************)
MaxProjects == 2        \* project ids
MaxCatalogCalls == 3    \* calls of get_project_field_catalog in one process

ProjectIds == 1..MaxProjects

\* what one fetch does: run_gh or json.loads raises (nothing built), a node of
\* the answer makes the loop raise (the part built so far), or all nodes are
\* read
FetchOutcomes ==
    {[kind |-> "failed", catalog |-> EmptyDict]}
        \cup [kind : {"raised_in_loop", "ok"}, catalog : SampleCatalogs]

CatalogCall(project_id, invoked_gh, fetched, returned) ==
    [project_id |-> project_id, invoked_gh |-> invoked_gh, fetched |-> fetched,
     returned |-> returned]

\* Mutant: line 330 moved behind the try statement, the catalog is cached
\* whatever happened
get_project_field_catalog_CacheAlways(project_id) ==
    /\ Len(catalog_calls) < MaxCatalogCalls
    /\ IF project_id \in DOMAIN PROJECT_FIELD_CATALOG_CACHE
       THEN /\ catalog_calls' = Append(catalog_calls,
                   CatalogCall(project_id, FALSE, FALSE,
                               PROJECT_FIELD_CATALOG_CACHE[project_id]))
            /\ UNCHANGED PROJECT_FIELD_CATALOG_CACHE
       ELSE \E out \in FetchOutcomes :
            /\ catalog_calls' = Append(catalog_calls,
                   CatalogCall(project_id, TRUE, out.kind = "ok", out.catalog))
            /\ PROJECT_FIELD_CATALOG_CACHE' =
                   [p \in DOMAIN PROJECT_FIELD_CATALOG_CACHE \cup {project_id} |->
                       IF p = project_id THEN out.catalog
                       ELSE PROJECT_FIELD_CATALOG_CACHE[p]]
    /\ UNCHANGED <<script_vars, logging_vars, assignee_vars, sync_vars, load_vars>>

\* lines 282-333
get_project_field_catalog(project_id) ==
    /\ Len(catalog_calls) < MaxCatalogCalls
    /\ IF project_id \in DOMAIN PROJECT_FIELD_CATALOG_CACHE
       THEN /\ catalog_calls' = Append(catalog_calls,
                   CatalogCall(project_id, FALSE, FALSE,
                               PROJECT_FIELD_CATALOG_CACHE[project_id]))
            /\ UNCHANGED PROJECT_FIELD_CATALOG_CACHE
       ELSE \E out \in FetchOutcomes :
            /\ catalog_calls' = Append(catalog_calls,
                   CatalogCall(project_id, TRUE, out.kind = "ok", out.catalog))
            /\ PROJECT_FIELD_CATALOG_CACHE' =
                   IF out.kind = "ok"
                   THEN [p \in DOMAIN PROJECT_FIELD_CATALOG_CACHE \cup {project_id} |->
                           IF p = project_id THEN out.catalog
                           ELSE PROJECT_FIELD_CATALOG_CACHE[p]]
                   ELSE PROJECT_FIELD_CATALOG_CACHE
    /\ UNCHANGED <<script_vars, logging_vars, assignee_vars, sync_vars, load_vars>>

\* a fresh process: the cache of line 126 is empty
InitCatalog ==
    /\ ScriptsAtRest
    /\ LoggingAtRest /\ AssigneesAtRest /\ SyncAtRest /\ LoadAtRest
    /\ PROJECT_FIELD_CATALOG_CACHE = EmptyDict
    /\ catalog_calls = <<>>

NextCatalog == \E project_id \in ProjectIds : get_project_field_catalog(project_id)

SpecCatalog == InitCatalog /\ [][NextCatalog]_vars

(***************************************************************************)
(* Claims about get_project_field_catalog (checked under SpecCatalog)      *)
(***************************************************************************)
\* the calls before call j that fetched the catalog of the same project
FetchedBefore(j) ==
    {i \in 1..(j - 1) : /\ catalog_calls[i].project_id = catalog_calls[j].project_id
                        /\ catalog_calls[i].fetched}

\* C18: once a fetch for project id P has succeeded, every later call for P
\* returns the same cached catalog without invoking gh; a failed fetch adds no
\* entry for P to the cache, so that a later call for P fetches again.
C18_CachedAfterSuccessOnly ==
    /\ \A j \in 1..Len(catalog_calls) :
          IF FetchedBefore(j) # {}
          THEN /\ ~catalog_calls[j].invoked_gh
               /\ \A i \in FetchedBefore(j) :
                     catalog_calls[j].returned = catalog_calls[i].returned
          ELSE catalog_calls[j].invoked_gh
    /\ \A p \in ProjectIds :
          p \in DOMAIN PROJECT_FIELD_CATALOG_CACHE <=>
              \E i \in 1..Len(catalog_calls) :
                  catalog_calls[i].project_id = p /\ catalog_calls[i].fetched

\* for one project: a failed fetch, a successful fetch, then an answer from
\* the cache
C18_Witness ==
    /\ Len(catalog_calls) = 3
    /\ \A i \in 1..3 : catalog_calls[i].project_id = 1
    /\ catalog_calls[1].invoked_gh /\ ~catalog_calls[1].fetched
    /\ catalog_calls[2].fetched
    /\ catalog_calls[2].returned # EmptyDict
    /\ ~catalog_calls[3].invoked_gh
    /\ catalog_calls[3].returned = catalog_calls[2].returned

====
